---------------------------- MODULE Spec2Model ----------------------------
(***************************************************************************)
(* Model of build_safari/utils/terminal.py: the markup escaper, the SGR    *)
(* translator, the escape-sequence scanner, the line converter             *)
(* (ansi_to_rich) and the line assembler (OutputProcessor).                *)
(*                                                                         *)
(* A Python str is modelled as a sequence of characters; a character is a  *)
(* one-element token.  Printable characters stand for themselves; control  *)
(* characters are named: ESC (0x1B), BEL (0x07), CR, LF, BS (0x08).        *)
(***************************************************************************)
EXTENDS Integers, Sequences, FiniteSets, TLC

VARIABLES
    current_line,   \* OutputProcessor.current_line of the instance
    op,             \* the last call made on the instance
    text,           \* the argument of the last process call
    pre,            \* current_line at the entry of the last call
    result_lines,   \* the local result_lines of the last process call
    ret,            \* the return value of the last call
    line,           \* the argument of a direct ansi_to_rich call
    markup,         \* the return value of that call
    converted,      \* whether ansi_to_rich has returned
    stream,         \* all the characters passed to process so far, in order
    cuts,           \* the positions of stream after which a chunk ended
    emitted,        \* the return values so far, concatenated
    cells,          \* with two instances: the current_line attribute of each
    calls,          \* with two instances: the calls made on each, in order
    outputs         \* with two instances: the values returned by each, in order

\* the variables of the runs that follow a whole stream or two instances
streamVars == <<stream, cuts, emitted>>
twoVars == <<cells, calls, outputs>>

vars == <<current_line, op, text, pre, result_lines, ret, line, markup, converted,
          stream, cuts, emitted, cells, calls, outputs>>

-----------------------------------------------------------------------------
(* Characters *)

ESC == "ESC"
BEL == "BEL"
CR == "CR"
LF == "LF"
BS == "BS"
BSL == "\\"

Digits == {"0", "1", "2", "3", "4", "5", "6", "7", "8", "9"}

UpperLetters ==
    {"A", "B", "C", "D", "E", "F", "G", "H", "I", "J", "K", "L", "M",
     "N", "O", "P", "Q", "R", "S", "T", "U", "V", "W", "X", "Y", "Z"}

LowerLetters ==
    {"a", "b", "c", "d", "e", "f", "g", "h", "i", "j", "k", "l", "m",
     "n", "o", "p", "q", "r", "s", "t", "u", "v", "w", "x", "y", "z"}

\* [A-Za-z]
Letters == UpperLetters \cup LowerLetters

\* [0-9;:]
ParamChars == Digits \cup {";", ":"}

\* [PX^_]
StringIntroducers == {"P", "X", "^", "_"}

\* [@-Z\\-_]
FeChars == {"@"} \cup UpperLetters \cup {BSL, "]", "^", "_"}

-----------------------------------------------------------------------------
(* Sequence helpers standing for Python's str operations *)

\* s[a:b] with 1-based inclusive start a and exclusive end b
Slice(s, a, b) == SubSeq(s, a, b - 1)

RECURSIVE Concat(_)
\* "".join(parts)
Concat(parts) ==
    IF parts = <<>> THEN <<>> ELSE Head(parts) \o Concat(Tail(parts))

RECURSIVE Replace(_, _, _)
\* str.replace(ch, rep) for a one-character pattern ch
Replace(s, ch, rep) ==
    IF s = <<>> THEN <<>>
    ELSE (IF Head(s) = ch THEN rep ELSE <<Head(s)>>) \o Replace(Tail(s), ch, rep)

RECURSIVE Split(_, _)
\* str.split(sep) for a one-character separator: always at least one part
Split(s, sep) ==
    IF \A k \in 1..Len(s) : s[k] # sep THEN <<s>>
    ELSE LET k == CHOOSE j \in 1..Len(s) :
                      s[j] = sep /\ \A h \in 1..(j - 1) : s[h] # sep
         IN <<Slice(s, 1, k)>> \o Split(Slice(s, k + 1, Len(s) + 1), sep)

DigitValue(c) ==
    CASE c = "0" -> 0 [] c = "1" -> 1 [] c = "2" -> 2 [] c = "3" -> 3
      [] c = "4" -> 4 [] c = "5" -> 5 [] c = "6" -> 6 [] c = "7" -> 7
      [] c = "8" -> 8 [] c = "9" -> 9

DigitChar(d) ==
    CASE d = 0 -> "0" [] d = 1 -> "1" [] d = 2 -> "2" [] d = 3 -> "3"
      [] d = 4 -> "4" [] d = 5 -> "5" [] d = 6 -> "6" [] d = 7 -> "7"
      [] d = 8 -> "8" [] d = 9 -> "9"

\* whether int(s) returns (s is drawn from [0-9;:]*): otherwise ValueError
IntParses(s) == s # <<>> /\ \A k \in 1..Len(s) : s[k] \in Digits

RECURSIVE IntValue(_)
\* int(s) for a string of decimal digits
IntValue(s) ==
    IF s = <<>> THEN 0
    ELSE 10 * IntValue(Slice(s, 1, Len(s))) + DigitValue(s[Len(s)])

RECURSIVE IntStr(_)
\* str(n) of a natural number, as the f-strings format it
IntStr(n) ==
    IF n < 10 THEN <<DigitChar(n)>>
    ELSE IntStr(n \div 10) \o <<DigitChar(n % 10)>>

-----------------------------------------------------------------------------
(* The SGR code table *)

ANSI_TO_RICH ==
       (<<"0">> :> <<"/">>)
    @@ (<<"1">> :> <<"b", "o", "l", "d">>)
    @@ (<<"2">> :> <<"d", "i", "m">>)
    @@ (<<"3">> :> <<"i", "t", "a", "l", "i", "c">>)
    @@ (<<"4">> :> <<"u", "n", "d", "e", "r", "l", "i", "n", "e">>)
    @@ (<<"5">> :> <<"b", "l", "i", "n", "k">>)
    @@ (<<"7">> :> <<"r", "e", "v", "e", "r", "s", "e">>)
    @@ (<<"8">> :> <<"h", "i", "d", "d", "e", "n">>)
    @@ (<<"9">> :> <<"s", "t", "r", "i", "k", "e">>)
    @@ (<<"2", "1">> :> <<"/", "b", "o", "l", "d">>)
    @@ (<<"2", "2">> :> <<"/", "d", "i", "m">>)
    @@ (<<"2", "3">> :> <<"/", "i", "t", "a", "l", "i", "c">>)
    @@ (<<"2", "4">> :> <<"/", "u", "n", "d", "e", "r", "l", "i", "n", "e">>)
    @@ (<<"2", "5">> :> <<"/", "b", "l", "i", "n", "k">>)
    @@ (<<"2", "7">> :> <<"/", "r", "e", "v", "e", "r", "s", "e">>)
    @@ (<<"2", "8">> :> <<"/", "h", "i", "d", "d", "e", "n">>)
    @@ (<<"2", "9">> :> <<"/", "s", "t", "r", "i", "k", "e">>)
    @@ (<<"3", "0">> :> <<"b", "l", "a", "c", "k">>)
    @@ (<<"3", "1">> :> <<"r", "e", "d">>)
    @@ (<<"3", "2">> :> <<"g", "r", "e", "e", "n">>)
    @@ (<<"3", "3">> :> <<"y", "e", "l", "l", "o", "w">>)
    @@ (<<"3", "4">> :> <<"b", "l", "u", "e">>)
    @@ (<<"3", "5">> :> <<"m", "a", "g", "e", "n", "t", "a">>)
    @@ (<<"3", "6">> :> <<"c", "y", "a", "n">>)
    @@ (<<"3", "7">> :> <<"w", "h", "i", "t", "e">>)
    @@ (<<"3", "9">> :> <<"d", "e", "f", "a", "u", "l", "t">>)
    @@ (<<"4", "0">> :> <<"o", "n", " ", "b", "l", "a", "c", "k">>)
    @@ (<<"4", "1">> :> <<"o", "n", " ", "r", "e", "d">>)
    @@ (<<"4", "2">> :> <<"o", "n", " ", "g", "r", "e", "e", "n">>)
    @@ (<<"4", "3">> :> <<"o", "n", " ", "y", "e", "l", "l", "o", "w">>)
    @@ (<<"4", "4">> :> <<"o", "n", " ", "b", "l", "u", "e">>)
    @@ (<<"4", "5">> :> <<"o", "n", " ", "m", "a", "g", "e", "n", "t", "a">>)
    @@ (<<"4", "6">> :> <<"o", "n", " ", "c", "y", "a", "n">>)
    @@ (<<"4", "7">> :> <<"o", "n", " ", "w", "h", "i", "t", "e">>)
    @@ (<<"4", "9">> :> <<"o", "n", " ", "d", "e", "f", "a", "u", "l", "t">>)
    @@ (<<"9", "0">> :> <<"b", "r", "i", "g", "h", "t", "_", "b", "l", "a", "c", "k">>)
    @@ (<<"9", "1">> :> <<"b", "r", "i", "g", "h", "t", "_", "r", "e", "d">>)
    @@ (<<"9", "2">> :> <<"b", "r", "i", "g", "h", "t", "_", "g", "r", "e", "e", "n">>)
    @@ (<<"9", "3">> :> <<"b", "r", "i", "g", "h", "t", "_", "y", "e", "l", "l", "o", "w">>)
    @@ (<<"9", "4">> :> <<"b", "r", "i", "g", "h", "t", "_", "b", "l", "u", "e">>)
    @@ (<<"9", "5">> :> <<"b", "r", "i", "g", "h", "t", "_", "m", "a", "g", "e", "n", "t", "a">>)
    @@ (<<"9", "6">> :> <<"b", "r", "i", "g", "h", "t", "_", "c", "y", "a", "n">>)
    @@ (<<"9", "7">> :> <<"b", "r", "i", "g", "h", "t", "_", "w", "h", "i", "t", "e">>)
    @@ (<<"1", "0", "0">> :> <<"o", "n", " ", "b", "r", "i", "g", "h", "t", "_", "b", "l", "a", "c", "k">>)
    @@ (<<"1", "0", "1">> :> <<"o", "n", " ", "b", "r", "i", "g", "h", "t", "_", "r", "e", "d">>)
    @@ (<<"1", "0", "2">> :> <<"o", "n", " ", "b", "r", "i", "g", "h", "t", "_", "g", "r", "e", "e", "n">>)
    @@ (<<"1", "0", "3">> :> <<"o", "n", " ", "b", "r", "i", "g", "h", "t", "_", "y", "e", "l", "l", "o", "w">>)
    @@ (<<"1", "0", "4">> :> <<"o", "n", " ", "b", "r", "i", "g", "h", "t", "_", "b", "l", "u", "e">>)
    @@ (<<"1", "0", "5">> :> <<"o", "n", " ", "b", "r", "i", "g", "h", "t", "_", "m", "a", "g", "e", "n", "t", "a">>)
    @@ (<<"1", "0", "6">> :> <<"o", "n", " ", "b", "r", "i", "g", "h", "t", "_", "c", "y", "a", "n">>)
    @@ (<<"1", "0", "7">> :> <<"o", "n", " ", "b", "r", "i", "g", "h", "t", "_", "w", "h", "i", "t", "e">>)

-----------------------------------------------------------------------------
(* The markup escaper *)

\* mutant: only the opening bracket is escaped
_escape_rich_markup_OnlyOpen(s) == Replace(s, "[", <<BSL, "[">>)

\* text.replace("[", r"\[").replace("]", r"\]")
_escape_rich_markup(s) ==
    Replace(Replace(s, "[", <<BSL, "[">>), "]", <<BSL, "]">>)

-----------------------------------------------------------------------------
(* The SGR translator *)

\* "[" tag "]"
Tag(name) == <<"[">> \o name \o <<"]">>

\* mutant: the bound of the 256-colour branches is off by one
IndexedAt_OffByOne(parts, i, lead) ==
    /\ parts[i] = lead
    /\ i + 2 < Len(parts)
    /\ parts[i + 1] = <<"5">>
    /\ IntParses(parts[i + 2])

\* the 256-colour branches: lead;5;N with i + 2 < len(parts) (0-based i)
IndexedAt(parts, i, lead) ==
    /\ parts[i] = lead
    /\ i + 2 <= Len(parts)
    /\ parts[i + 1] = <<"5">>
    /\ IntParses(parts[i + 2])

\* mutant: a slot that is no integer is read as 0 instead of raising
RgbAt_NoIntCheck(parts, i, lead) ==
    /\ parts[i] = lead
    /\ i + 4 <= Len(parts)
    /\ parts[i + 1] = <<"2">>

\* the RGB branches: lead;2;R;G;B with i + 4 < len(parts) (0-based i)
RgbAt(parts, i, lead) ==
    /\ parts[i] = lead
    /\ i + 4 <= Len(parts)
    /\ parts[i + 1] = <<"2">>
    /\ IntParses(parts[i + 2])
    /\ IntParses(parts[i + 3])
    /\ IntParses(parts[i + 4])

ColorTag(prefix, part) ==
    Tag(prefix \o <<"c", "o", "l", "o", "r", "(">> \o IntStr(IntValue(part)) \o <<")">>)

RgbTag(prefix, parts, i) ==
    Tag(prefix \o <<"r", "g", "b", "(">> \o IntStr(IntValue(parts[i + 2])) \o <<",">>
        \o IntStr(IntValue(parts[i + 3])) \o <<",">>
        \o IntStr(IntValue(parts[i + 4])) \o <<")">>)

OnPrefix == <<"o", "n", " ">>

RECURSIVE SgrLoop(_, _, _)
\* the while loop of _parse_sgr; i is 1-based; returns the list tags
SgrLoop(parts, i, tags) ==
    IF i > Len(parts) THEN tags
    ELSE IF IndexedAt(parts, i, <<"3", "8">>)
        THEN SgrLoop(parts, i + 3, Append(tags, ColorTag(<<>>, parts[i + 2])))
    ELSE IF IndexedAt(parts, i, <<"4", "8">>)
        THEN SgrLoop(parts, i + 3, Append(tags, ColorTag(OnPrefix, parts[i + 2])))
    ELSE IF RgbAt(parts, i, <<"3", "8">>)
        THEN SgrLoop(parts, i + 5, Append(tags, RgbTag(<<>>, parts, i)))
    ELSE IF RgbAt(parts, i, <<"4", "8">>)
        THEN SgrLoop(parts, i + 5, Append(tags, RgbTag(OnPrefix, parts, i)))
    ELSE IF parts[i] \in DOMAIN ANSI_TO_RICH
        THEN SgrLoop(parts, i + 1, Append(tags, Tag(ANSI_TO_RICH[parts[i]])))
    ELSE SgrLoop(parts, i + 1, tags)

\* mutant: the empty parameter string is not treated apart
_parse_sgr_NoEmptyCase(params) ==
    IF params = <<"0">> THEN <<"[", "/", "]">>
    ELSE Concat(SgrLoop(Split(params, ";"), 1, <<>>))

_parse_sgr(params) ==
    IF params = <<>> \/ params = <<"0">> THEN <<"[", "/", "]">>
    ELSE Concat(SgrLoop(Split(params, ";"), 1, <<>>))

-----------------------------------------------------------------------------
(* The escape-sequence scanner *)

RECURSIVE SkipWhile(_, _, _)
\* the end of the longest run of characters of text from position j on
\* that are in allowed (a greedy character-class star)
SkipWhile(s, j, allowed) ==
    IF j <= Len(s) /\ s[j] \in allowed THEN SkipWhile(s, j + 1, allowed) ELSE j

RECURSIVE SkipUntil(_, _, _)
\* the same for a negated class [^...]
SkipUntil(s, j, stops) ==
    IF j <= Len(s) /\ s[j] \notin stops THEN SkipUntil(s, j + 1, stops) ELSE j

\* (?:\x1B\\)? at position j
AfterST(s, j) ==
    IF j + 1 <= Len(s) /\ s[j] = ESC /\ s[j + 1] = BSL THEN j + 2 ELSE j

\* mutant: a BEL does not close the sequence
AfterBelOrST_NoBel(s, j) == AfterST(s, j)

\* (?:\x07|\x1B\\)? at position j
AfterBelOrST(s, j) ==
    IF j <= Len(s) /\ s[j] = BEL THEN j + 1 ELSE AfterST(s, j)

\* ANSI_ALL_PATTERN.match(s, i): the position right after the match that
\* starts at position i, or 0 when the pattern does not match there
ANSI_ALL_PATTERN(s, i) ==
    IF i + 1 > Len(s) \/ s[i] # ESC THEN 0
    ELSE LET c == s[i + 1] IN
         IF c = "["
            THEN LET j == SkipWhile(s, i + 2, ParamChars)
                 IN IF j <= Len(s) /\ s[j] \in Letters THEN j + 1 ELSE 0
         ELSE IF c = "]"
            THEN AfterBelOrST(s, SkipUntil(s, i + 2, {BEL, ESC}))
         ELSE IF c \in StringIntroducers
            THEN AfterST(s, SkipUntil(s, i + 2, {ESC}))
         ELSE IF c \in FeChars THEN i + 2
         ELSE 0

RECURSIVE FindIter(_, _)
\* ANSI_ALL_PATTERN.finditer(s) from position i: the matches, each a pair
\* <<start, end>> (end exclusive), leftmost first, not overlapping
FindIter(s, i) ==
    IF i > Len(s) THEN <<>>
    ELSE LET e == ANSI_ALL_PATTERN(s, i)
         IN IF e = 0 THEN FindIter(s, i + 1)
            ELSE <<<<i, e>>>> \o FindIter(s, e)

\* ANSI_CSI_PATTERN.fullmatch(seq) is not None
ANSI_CSI_PATTERN(seq) ==
    /\ Len(seq) >= 3
    /\ seq[1] = ESC
    /\ seq[2] = "["
    /\ \A k \in 3..(Len(seq) - 1) : seq[k] \in ParamChars
    /\ seq[Len(seq)] \in Letters

\* csi_match.group(1), csi_match.group(2)
CsiParams(seq) == Slice(seq, 3, Len(seq))
CsiCommand(seq) == seq[Len(seq)]

-----------------------------------------------------------------------------
(* The line converter *)

\* mutant: the command letter of a CSI sequence is not looked at
SequenceMarkup_AnyCsi(seq) ==
    IF ANSI_CSI_PATTERN(seq)
    THEN _parse_sgr(CsiParams(seq))
    ELSE <<>>

\* what one match appends to result
SequenceMarkup(seq) ==
    IF ANSI_CSI_PATTERN(seq) /\ CsiCommand(seq) = "m"
    THEN _parse_sgr(CsiParams(seq))
    ELSE <<>>

\* mutant: last_end is set to match.start()
LoopBody_LastEndAtStart(s, start, end, last_end, result) ==
    [result |-> result \o _escape_rich_markup(Slice(s, last_end, start))
                       \o SequenceMarkup(Slice(s, start, end)),
     last_end |-> start]

\* the body of the for loop of ansi_to_rich for the match s[start:end]:
\* the new result and last_end
LoopBody(s, start, end, last_end, result) ==
    [result |-> result \o _escape_rich_markup(Slice(s, last_end, start))
                       \o SequenceMarkup(Slice(s, start, end)),
     last_end |-> end]

RECURSIVE ConvertLoop(_, _, _, _, _)
\* the for loop of ansi_to_rich over matches[k..], and the final append
ConvertLoop(s, matches, k, last_end, result) ==
    IF k > Len(matches)
    THEN result \o _escape_rich_markup(Slice(s, last_end, Len(s) + 1))
    ELSE LET b == LoopBody(s, matches[k][1], matches[k][2], last_end, result)
         IN ConvertLoop(s, matches, k + 1, b.last_end, b.result)

ansi_to_rich(s) == ConvertLoop(s, FindIter(s, 1), 1, 1, <<>>)

-----------------------------------------------------------------------------
(* The line assembler: OutputProcessor *)

RECURSIVE Join(_, _)
\* sep.join(parts)
Join(parts, sep) ==
    IF parts = <<>> THEN <<>>
    ELSE IF Len(parts) = 1 THEN parts[1]
    ELSE parts[1] \o sep \o Join(Tail(parts), sep)

\* A loop state of process: the index i (1-based), self.current_line and
\* the local result_lines
LoopState(i, cur, lines) == [i |-> i, current_line |-> cur, result_lines |-> lines]

\* mutant: the "\r\n" pair emits at the carriage return and advances by one,
\* so that the line feed emits again
OnCarriageReturn_PairTwice(s, i, cur, lines) ==
    IF i + 1 <= Len(s) /\ s[i + 1] = LF
    THEN LoopState(i + 1, <<>>, Append(lines, cur))
    ELSE LoopState(i + 1, <<>>, lines)

\* mutant: a carriage return alone leaves the buffer as it is
OnCarriageReturn_KeepOnBare(s, i, cur, lines) ==
    IF i + 1 <= Len(s) /\ s[i + 1] = LF
    THEN LoopState(i + 2, <<>>, Append(lines, cur))
    ELSE LoopState(i + 1, cur, lines)

\* mutant: a carriage return alone is appended to the buffer as text
OnCarriageReturn_Buffered(s, i, cur, lines) ==
    IF i + 1 <= Len(s) /\ s[i + 1] = LF
    THEN LoopState(i + 2, <<>>, Append(lines, cur))
    ELSE LoopState(i + 1, Append(cur, CR), lines)

\* if char == "\r": the "\r\n" pair, or the carriage return alone
OnCarriageReturn(s, i, cur, lines) ==
    IF i + 1 <= Len(s) /\ s[i + 1] = LF
    THEN LoopState(i + 2, <<>>, Append(lines, cur))
    ELSE LoopState(i + 1, <<>>, lines)

\* mutant: a line feed emits the buffer and leaves it as it is
OnLineFeed_KeepBuffer(s, i, cur, lines) == LoopState(i + 1, cur, Append(lines, cur))

\* elif char == "\n"
OnLineFeed(s, i, cur, lines) == LoopState(i + 1, <<>>, Append(lines, cur))

\* mutant: a backspace removes the last two characters
OnBackspace_Two(s, i, cur, lines) ==
    LoopState(i + 1, IF cur # <<>> THEN Slice(cur, 1, Len(cur) - 1) ELSE cur, lines)

\* elif char == "\b"
OnBackspace(s, i, cur, lines) ==
    LoopState(i + 1, IF cur # <<>> THEN Slice(cur, 1, Len(cur)) ELSE cur, lines)

\* else
OnOther(s, i, cur, lines) == LoopState(i + 1, Append(cur, s[i]), lines)

RECURSIVE ProcessLoop(_, _, _, _)
\* the while loop of process; returns the loop state at its exit
ProcessLoop(s, i, cur, lines) ==
    IF i > Len(s) THEN LoopState(i, cur, lines)
    ELSE LET char == s[i]
             n == IF char = CR THEN OnCarriageReturn(s, i, cur, lines)
                  ELSE IF char = LF THEN OnLineFeed(s, i, cur, lines)
                  ELSE IF char = BS THEN OnBackspace(s, i, cur, lines)
                  ELSE OnOther(s, i, cur, lines)
         IN ProcessLoop(s, n.i, n.current_line, n.result_lines)

\* mutant: the final "\n" is not appended
ProcessReturn_NoFinalNewline(lines) ==
    IF lines # <<>>
    THEN Join([k \in 1..Len(lines) |-> ansi_to_rich(lines[k])], <<LF>>)
    ELSE <<>>

\* the return statement of process
ProcessReturn(lines) ==
    IF lines # <<>>
    THEN Join([k \in 1..Len(lines) |-> ansi_to_rich(lines[k])], <<LF>>) \o <<LF>>
    ELSE <<>>

\* mutant: each chunk is scanned on its own, and what the buffer holds is
\* converted apart from the chunk that completes the line
process_ScansPerChunk(cur, s) ==
    LET exit == ProcessLoop(s, 1, <<>>, <<>>)
    IN IF exit.result_lines = <<>>
       THEN [current_line |-> cur \o exit.current_line,
             result_lines |-> <<>>,
             ret |-> <<>>]
       ELSE [current_line |-> exit.current_line,
             result_lines |-> [exit.result_lines EXCEPT ![1] = cur \o @],
             ret |-> ansi_to_rich(cur) \o ProcessReturn(exit.result_lines)]

\* OutputProcessor.process(s) entered with current_line = cur
process(cur, s) ==
    LET exit == ProcessLoop(s, 1, cur, <<>>)
    IN [current_line |-> exit.current_line,
        result_lines |-> exit.result_lines,
        ret |-> ProcessReturn(exit.result_lines)]

\* mutant: flush does not clear the buffer
flush_KeepBuffer(cur) ==
    IF cur # <<>>
    THEN [current_line |-> cur, ret |-> ansi_to_rich(cur) \o <<LF>>]
    ELSE [current_line |-> cur, ret |-> <<>>]

\* OutputProcessor.flush() entered with current_line = cur
flush(cur) ==
    IF cur # <<>>
    THEN [current_line |-> <<>>, ret |-> ansi_to_rich(cur) \o <<LF>>]
    ELSE [current_line |-> cur, ret |-> <<>>]

\* mutant: reset leaves the buffer alone
reset_Keep(cur) == [current_line |-> cur]

\* OutputProcessor.reset() entered with current_line = cur
reset(cur) == [current_line |-> <<>>]

-----------------------------------------------------------------------------
(* Bounds and input sets *)

\* the longest chunk passed to process
MaxChunk == 3

\* the longest partial line a call may leave in the buffer
MaxBuf == 2

\* the longest line passed to ansi_to_rich directly
MaxLine == 5

SeqsUpTo(S, n) == UNION {[1..k -> S] : k \in 0..n}

\* plain text, a markup bracket, and the three characters process interprets
Alphabet == {"a", "[", CR, LF, BS}

Chunks == SeqsUpTo(Alphabet, MaxChunk)

\* a stream carrying escape sequences
EscAlphabet == {ESC, "[", "m", "K", LF}

EscChunks == SeqsUpTo(EscAlphabet, MaxChunk)

\* one character of each class the scanner tells apart
LineAlphabet == {ESC, "[", "]", "1", "m", "K", "P", BEL, BSL, "a"}

Lines == SeqsUpTo(LineAlphabet, MaxLine)

-----------------------------------------------------------------------------
(* The state machine *)

\* the instances of the run with two of them
Instances == {1, 2}

\* self.current_line is an attribute of the instance: each instance has a
\* cell of its own
\* mutant: current_line is one attribute shared by the instances
Cell_Shared(inst) == 1

Cell(inst) == inst

\* nothing fed yet, and OutputProcessor.__init__ run for each instance
Idle ==
    /\ stream = <<>>
    /\ cuts = {}
    /\ emitted = <<>>
    /\ cells = [c \in {Cell(inst) : inst \in Instances} |-> <<>>]
    /\ calls = [inst \in Instances |-> <<>>]
    /\ outputs = [inst \in Instances |-> <<>>]

\* OutputProcessor.__init__
Init ==
    /\ current_line = <<>>
    /\ op = "init"
    /\ text = <<>>
    /\ pre = <<>>
    /\ result_lines = <<>>
    /\ ret = <<>>
    /\ line = <<>>
    /\ markup = <<>>
    /\ converted = FALSE
    /\ Idle

Process(s) ==
    \E r \in {process(current_line, s)} :
    /\ Len(r.current_line) <= MaxBuf
    /\ op' = "process"
    /\ text' = s
    /\ pre' = current_line
    /\ current_line' = r.current_line
    /\ result_lines' = r.result_lines
    /\ ret' = r.ret
    /\ UNCHANGED <<line, markup, converted, streamVars, twoVars>>

Flush ==
    \E r \in {flush(current_line)} :
    /\ op' = "flush"
    /\ text' = <<>>
    /\ pre' = current_line
    /\ current_line' = r.current_line
    /\ result_lines' = <<>>
    /\ ret' = r.ret
    /\ UNCHANGED <<line, markup, converted, streamVars, twoVars>>

Reset ==
    /\ op' = "reset"
    /\ text' = <<>>
    /\ pre' = current_line
    /\ current_line' = reset(current_line).current_line
    /\ result_lines' = <<>>
    /\ ret' = <<>>
    /\ UNCHANGED <<line, markup, converted, streamVars, twoVars>>

Next ==
    \/ \E s \in Chunks : Process(s)
    \/ Flush
    \/ Reset

Spec == Init /\ [][Next]_vars

\* the same instance fed a stream that carries escape sequences
NextEsc ==
    \/ \E s \in EscChunks : Process(s)
    \/ Flush
    \/ Reset

SpecEsc == Init /\ [][NextEsc]_vars

\* a direct call of ansi_to_rich on one line
InitLine ==
    /\ current_line = <<>>
    /\ op = "init"
    /\ text = <<>>
    /\ pre = <<>>
    /\ result_lines = <<>>
    /\ ret = <<>>
    /\ line \in Lines
    /\ markup = <<>>
    /\ converted = FALSE
    /\ Idle

Convert ==
    /\ ~converted
    /\ markup' = ansi_to_rich(line)
    /\ converted' = TRUE
    /\ UNCHANGED <<current_line, op, text, pre, result_lines, ret, line>>
    /\ UNCHANGED <<streamVars, twoVars>>

NextLine == Convert

SpecLine == InitLine /\ [][NextLine]_vars

-----------------------------------------------------------------------------
(* Definitions the properties are stated with *)

\* the number of occurrences of character c in s
Count(s, c) == Cardinality({k \in 1..Len(s) : s[k] = c})

\* s without its last character
ButLast(s) == SubSeq(s, 1, Len(s) - 1)

\* the k-th smallest element of a finite set of numbers
RECURSIVE Sorted(_)
Sorted(S) ==
    IF S = {} THEN <<>>
    ELSE LET m == CHOOSE x \in S : \A y \in S : x <= y
         IN <<m>> \o Sorted(S \ {m})

\* the positions of the line feeds of s, in order
LineFeeds(s) == Sorted({k \in 1..Len(s) : s[k] = LF})

\* whether position j of s holds a carriage return with no line feed right
\* after it in s
BareCR(s, j) == s[j] = CR /\ ~(j + 1 <= Len(s) /\ s[j + 1] = LF)

RECURSIVE Edit(_, _)
\* the buffer after a stretch of characters without a terminator: a bare
\* carriage return empties it, a backspace shortens it, the rest is appended
Edit(buf, seg) ==
    IF seg = <<>> THEN buf
    ELSE LET c == Head(seg)
         IN Edit(IF c = CR THEN <<>>
                 ELSE IF c = BS THEN (IF buf = <<>> THEN <<>> ELSE ButLast(buf))
                 ELSE Append(buf, c),
                 Tail(seg))

\* the first position of the k-th terminator of s: the carriage return of a
\* CR LF pair, or the line feed itself
TerminatorStart(s, k) ==
    LET lf == LineFeeds(s)[k]
    IN IF lf > 1 /\ s[lf - 1] = CR THEN lf - 1 ELSE lf

\* the characters of s between the (k-1)-th terminator and the k-th one;
\* for k one more than the number of terminators, those after the last one
Stretch(s, k) ==
    LET lfs == LineFeeds(s)
        from == IF k = 1 THEN 1 ELSE lfs[k - 1] + 1
        to == IF k > Len(lfs) THEN Len(s) + 1 ELSE TerminatorStart(s, k)
    IN Slice(s, from, to)

-----------------------------------------------------------------------------
(* C1..C6: the line assembler, under Spec *)

\* C1: in process, each line feed, and each carriage return immediately
\* followed by a line feed, is exactly one terminator: the call completes as
\* many lines as the chunk has line feeds, the k-th of them is the buffer as
\* it stood at the k-th terminator (the entry buffer, then empty after each
\* terminator, edited by the characters in between), in chunk order, and the
\* buffer left is what followed the last terminator.
C1_TerminatorsEmitInOrder ==
    op = "process" =>
        LET n == Len(LineFeeds(text)) IN
        /\ Len(result_lines) = n
        /\ \A k \in 1..n :
               result_lines[k] = Edit(IF k = 1 THEN pre ELSE <<>>, Stretch(text, k))
        /\ current_line = Edit(IF n = 0 THEN pre ELSE <<>>, Stretch(text, n + 1))

\* a chunk with a CR LF pair and a second terminator, entered with content
C1_Witness ==
    /\ op = "process"
    /\ pre # <<>>
    /\ \E j \in 1..(Len(text) - 1) : text[j] = CR /\ text[j + 1] = LF
    /\ Len(result_lines) = 2
    /\ result_lines[1] # <<>>

\* C2: a carriage return not immediately followed by a line feed empties
\* the buffer and completes no line: the call goes on as a call entered
\* with an empty buffer on the rest of the chunk would, so the next line
\* holds only what came after the carriage return.
C2_BareCarriageReturnDiscards ==
    op = "process" =>
        \A j \in 1..Len(text) :
            BareCR(text, j) =>
                LET before == process(pre, Slice(text, 1, j))
                    at == process(pre, Slice(text, 1, j + 1))
                    after == process(<<>>, Slice(text, j + 1, Len(text) + 1))
                IN /\ at.current_line = <<>>
                   /\ at.result_lines = before.result_lines
                   /\ result_lines = before.result_lines \o after.result_lines
                   /\ current_line = after.current_line

\* content, a bare carriage return, new content, a line feed
C2_Witness ==
    /\ op = "process"
    /\ pre = <<"a">>
    /\ text = <<CR, "[", LF>>
    /\ result_lines = <<<<"[">>>>

\* C3: process returns the lines completed in the call, each converted and
\* followed by one newline: the return value has as many newlines as the
\* chunk has terminators, is empty exactly when the chunk has none, does
\* not depend on what follows the last terminator, and the buffer left by
\* the previous call starts the first line of this one.
C3_ReturnIsCompletedLines ==
    op = "process" =>
        LET lfs == LineFeeds(text)
            n == Len(lfs)
        IN /\ ret = Concat([k \in 1..Len(result_lines) |->
                              ansi_to_rich(result_lines[k]) \o <<LF>>])
           /\ Count(ret, LF) = n
           /\ (ret = <<>>) <=> (n = 0)
           /\ n > 0 => ret = process(pre, Slice(text, 1, lfs[n] + 1)).ret
           /\ (n > 0 /\ \A h \in 1..(lfs[1] - 1) : text[h] \notin {CR, BS})
                 => result_lines[1] = pre \o Slice(text, 1, lfs[1])

\* two lines completed in one call, with content left in the buffer
C3_Witness ==
    /\ op = "process"
    /\ pre # <<>>
    /\ Len(result_lines) = 2
    /\ Count(ret, LF) = 2
    /\ current_line # <<>>

\* C4: flush on a non-empty buffer returns the converted buffer and one
\* newline and leaves the buffer empty; on an empty buffer it returns the
\* empty string and changes nothing; a flush right after a flush returns
\* the empty string.
C4_FlushEmptiesOnce ==
    op = "flush" =>
        /\ pre # <<>> => ret = ansi_to_rich(pre) \o <<LF>> /\ current_line = <<>>
        /\ pre = <<>> => ret = <<>> /\ current_line = pre
        /\ flush(current_line).ret = <<>>
        /\ flush(current_line).current_line = current_line

\* a flush of a buffer the conversion changes
C4_Witness ==
    /\ op = "flush"
    /\ pre = <<"a", "[">>
    /\ ret = <<"a", BSL, "[", LF>>

\* C5: reset empties the buffer and emits nothing: a flush right after it
\* returns the empty string, and every later call returns what it returns
\* on a new instance.
C5_ResetDiscards ==
    op = "reset" =>
        /\ current_line = <<>>
        /\ ret = <<>>
        /\ flush(current_line).ret = <<>>
        /\ \A s \in Chunks : process(current_line, s) = process(<<>>, s)

\* a reset of a buffer that held content
C5_Witness == op = "reset" /\ pre # <<>>

\* C6: a backspace removes exactly the last character of a non-empty
\* buffer and does nothing to an empty one; it completes no line and leaves
\* the lines completed before it as they are.
C6_BackspaceRemovesOne ==
    op = "process" =>
        \A j \in 1..Len(text) :
            text[j] = BS =>
                LET before == process(pre, Slice(text, 1, j))
                    at == process(pre, Slice(text, 1, j + 1))
                IN /\ at.result_lines = before.result_lines
                   /\ before.current_line = <<>> => at.current_line = <<>>
                   /\ before.current_line # <<>> =>
                          at.current_line = ButLast(before.current_line)
                   /\ (j = Len(text)) =>
                          /\ result_lines = before.result_lines
                          /\ current_line = at.current_line

\* a backspace on a two-character buffer, then a line feed
C6_Witness ==
    /\ op = "process"
    /\ pre = <<"a", "[">>
    /\ text = <<BS, LF>>
    /\ result_lines = <<<<"a">>>>

-----------------------------------------------------------------------------
(* C7: what the assembler returns, under SpecEsc *)

\* C7: no string returned by process or flush contains a substring the
\* scanner recognizes as an escape sequence.
C7_NoSequenceInReturn ==
    op \in {"process", "flush"} => FindIter(ret, 1) = <<>>

-----------------------------------------------------------------------------
(* C8..C10: the line converter, under SpecLine *)

\* the matches of the scanner on s, each <<start, end>>
Matches(s) == FindIter(s, 1)

\* a recognized sequence that is a CSI with command letter m
IsSGR(seq) == Len(seq) >= 3 /\ seq[2] = "[" /\ seq[Len(seq)] = "m"

\* the part of s before position a, and the part from position b on
Before(s, a) == Slice(s, 1, a)
After(s, b) == Slice(s, b, Len(s) + 1)

\* the matches ms moved right by d positions
Shift(ms, d) == [k \in 1..Len(ms) |-> <<ms[k][1] + d, ms[k][2] + d>>]

\* joining x and y makes no sequence that neither part has: the sequences
\* of the joined text are those of x followed by those of y
JoinClean(x, y) == Matches(x \o y) = Matches(x) \o Shift(Matches(y), Len(x))

\* C8 as stated: removing a recognized sequence other than SGR from a line
\* leaves the output of ansi_to_rich unchanged.
C8_RemovalLeavesOutput ==
    converted =>
        \A k \in 1..Len(Matches(line)) :
            LET m == Matches(line)[k] IN
            ~IsSGR(Slice(line, m[1], m[2])) =>
                ansi_to_rich(Before(line, m[1]) \o After(line, m[2])) = markup

\* C8 as amended: a recognized sequence other than SGR adds nothing to the
\* output, which is the conversion of the text before the sequence followed
\* by the conversion of the text after it; removing the sequence leaves the
\* output unchanged whenever the two parts join without making a sequence
\* that neither of them has.
C8_DroppedSequenceAddsNothing ==
    converted =>
        \A k \in 1..Len(Matches(line)) :
            LET m == Matches(line)[k]
                x == Before(line, m[1])
                y == After(line, m[2])
            IN ~IsSGR(Slice(line, m[1], m[2])) =>
                  /\ markup = ansi_to_rich(x) \o ansi_to_rich(y)
                  /\ JoinClean(x, y) => ansi_to_rich(x \o y) = markup

\* an erase sequence between two pieces of text that join cleanly
C8_Witness ==
    /\ converted
    /\ line = <<"a", ESC, "[", "K", "]">>
    /\ Matches(line) = <<<<2, 5>>>>
    /\ JoinClean(<<"a">>, <<"]">>)
    /\ markup = <<"a", BSL, "]">>

\* the four recognized forms, as patterns on a whole string q
IsCSI(q) ==
    /\ Len(q) >= 3
    /\ q[1] = ESC /\ q[2] = "["
    /\ \A h \in 3..(Len(q) - 1) : q[h] \in ParamChars
    /\ q[Len(q)] \in Letters

IsOSC(q) ==
    /\ Len(q) >= 2
    /\ q[1] = ESC /\ q[2] = "]"
    /\ \E b \in 2..Len(q) :
          /\ \A h \in 3..b : q[h] \notin {BEL, ESC}
          /\ After(q, b + 1) \in {<<>>, <<BEL>>, <<ESC, BSL>>}

IsDCS(q) ==
    /\ Len(q) >= 2
    /\ q[1] = ESC /\ q[2] \in StringIntroducers
    /\ \E b \in 2..Len(q) :
          /\ \A h \in 3..b : q[h] # ESC
          /\ After(q, b + 1) \in {<<>>, <<ESC, BSL>>}

IsFe(q) == Len(q) = 2 /\ q[1] = ESC /\ q[2] \in FeChars

Recognized(q) == IsCSI(q) \/ IsOSC(q) \/ IsDCS(q) \/ IsFe(q)

\* some recognized form starts at position p of s
StartsSequence(s, p) == \E e \in (p + 2)..(Len(s) + 1) : Recognized(Slice(s, p, e))

\* the spans the matches cut s into: literal span, sequence, literal span,
\* ..., literal span (a literal span may be empty)
Spans(s) ==
    LET ms == Matches(s)
        n == Len(ms)
    IN [k \in 1..(2 * n + 1) |->
           IF k % 2 = 0
           THEN [from |-> ms[k \div 2][1], to |-> ms[k \div 2][2], seq |-> TRUE]
           ELSE LET h == (k + 1) \div 2
                IN [from |-> IF h = 1 THEN 1 ELSE ms[h - 1][2],
                    to |-> IF h = n + 1 THEN Len(s) + 1 ELSE ms[h][1],
                    seq |-> FALSE]]

\* a backslash put before each bracket of q, character by character
Escaped(q) ==
    Concat([h \in 1..Len(q) |->
               IF q[h] \in {"[", "]"} THEN <<BSL, q[h]>> ELSE <<q[h]>>])

\* what a span of s contributes to the output
SpanMarkup(s, sp) ==
    LET q == Slice(s, sp.from, sp.to)
    IN IF ~sp.seq THEN Escaped(q)
       ELSE IF IsSGR(q) THEN _parse_sgr(Slice(q, 3, Len(q)))
       ELSE <<>>

\* C9: ansi_to_rich cuts its input into literal spans and recognized
\* sequences without gap or overlap; the output is, in input order, the
\* escaped literal spans and the tags of the SGR sequences; an ESC that
\* starts none of the recognized forms is in a literal span and stays in
\* the output.
C9_SpansPartitionInput ==
    converted =>
        LET sp == Spans(line)
            n == Len(sp)
        IN /\ \A k \in 1..n : 1 <= sp[k].from /\ sp[k].from <= sp[k].to
                                /\ sp[k].to <= Len(line) + 1
           /\ \A p \in 1..Len(line) :
                 Cardinality({k \in 1..n : sp[k].from <= p /\ p < sp[k].to}) = 1
           /\ Concat([k \in 1..n |-> Slice(line, sp[k].from, sp[k].to)]) = line
           /\ \A k \in 1..n :
                 IF sp[k].seq
                 THEN Recognized(Slice(line, sp[k].from, sp[k].to))
                 ELSE \A p \in sp[k].from..(sp[k].to - 1) :
                         /\ ~StartsSequence(line, p)
                         /\ line[p] = ESC => Count(markup, ESC) >= 1
           /\ markup = Concat([k \in 1..n |-> SpanMarkup(line, sp[k])])
           /\ Count(markup, ESC) =
                 Cardinality({p \in 1..Len(line) :
                     /\ line[p] = ESC
                     /\ \E k \in 1..n : /\ ~sp[k].seq
                                          /\ sp[k].from <= p /\ p < sp[k].to})

\* an ESC before a lowercase letter, which starts no sequence, then an SGR
\* sequence
C9_Witness ==
    /\ converted
    /\ line = <<ESC, "a", ESC, "[", "m">>
    /\ Len(Spans(line)) = 3
    /\ markup = <<ESC, "a", "[", "/", "]">>

\* C10: the escaper puts one backslash before every "[" and every "]" and
\* changes nothing else; in the output of a line without SGR sequence no
\* bracket is without its backslash; a line with no ESC and no bracket is
\* returned unchanged.
C10_EscaperBackslashesBrackets ==
    converted =>
        /\ _escape_rich_markup(line) = Escaped(line)
        /\ Len(_escape_rich_markup(line))
              = Len(line) + Count(line, "[") + Count(line, "]")
        /\ (\A k \in 1..Len(Matches(line)) :
                ~IsSGR(Slice(line, Matches(line)[k][1], Matches(line)[k][2])))
              => \A p \in 1..Len(markup) :
                    markup[p] \in {"[", "]"} => p > 1 /\ markup[p - 1] = BSL
        /\ (Count(line, ESC) = 0 /\ Count(line, "[") = 0 /\ Count(line, "]") = 0)
              => markup = line

\* the line a[a] of the escaping example
C10_Witness ==
    /\ converted
    /\ line = <<"a", "[", "a", "]">>
    /\ markup = <<"a", BSL, "[", "a", BSL, "]">>

-----------------------------------------------------------------------------
(* A direct call of ansi_to_rich on one SGR sequence ESC [ params m *)

\* the most parameters of a sequence
MaxParts == 5

\* the lead values, the two selectors (also the codes of blink and dim),
\* the reset code, an empty parameter, and a number that is no code
SgrParts == {<<"3", "8">>, <<"4", "8">>, <<"5">>, <<"2">>, <<"0">>, <<>>, <<"0", "7">>}

SgrLines ==
    {<<ESC, "[">> \o Join(parts, <<";">>) \o <<"m">> :
        parts \in SeqsUpTo(SgrParts, MaxParts)}

InitSgr ==
    /\ current_line = <<>>
    /\ op = "init"
    /\ text = <<>>
    /\ pre = <<>>
    /\ result_lines = <<>>
    /\ ret = <<>>
    /\ line \in SgrLines
    /\ markup = <<>>
    /\ converted = FALSE
    /\ Idle

SpecSgr == InitSgr /\ [][NextLine]_vars

-----------------------------------------------------------------------------
(* C11..C13: the SGR translator, under SpecSgr *)

\* the parameter slots of the sequence l
Slots(l) == Split(Slice(l, 3, Len(l)), ";")

\* q is a non-empty string of decimal digits
IsNumber(q) == q # <<>> /\ \A h \in 1..Len(q) : q[h] \in Digits

\* q as Python prints the integer it denotes
Decimal(q) == IntStr(IntValue(q))

Leads == {<<"3", "8">>, <<"4", "8">>}

\* a complete indexed-colour directive starts at slot i
IndexedDirective(ps, i) ==
    /\ ps[i] \in Leads
    /\ i + 2 <= Len(ps)
    /\ ps[i + 1] = <<"5">>
    /\ IsNumber(ps[i + 2])

\* a complete true-colour directive starts at slot i
RgbDirective(ps, i) ==
    /\ ps[i] \in Leads
    /\ i + 4 <= Len(ps)
    /\ ps[i + 1] = <<"2">>
    /\ \A h \in (i + 2)..(i + 4) : IsNumber(ps[h])

\* a lead value and a selector at slot i, with too few slots after them or
\* with a slot that is no integer
BrokenDirective(ps, i) ==
    /\ ps[i] \in Leads
    /\ i + 1 <= Len(ps)
    /\ ps[i + 1] \in {<<"5">>, <<"2">>}
    /\ ~IndexedDirective(ps, i)
    /\ ~RgbDirective(ps, i)

\* the number of slots the item at slot i takes
Width(ps, i) ==
    IF IndexedDirective(ps, i) THEN 3 ELSE IF RgbDirective(ps, i) THEN 5 ELSE 1

RECURSIVE ItemsFrom(_, _)
\* the slots at which an item starts, from slot i on
ItemsFrom(ps, i) ==
    IF i > Len(ps) THEN {} ELSE {i} \cup ItemsFrom(ps, i + Width(ps, i))

\* the tags of the slots a..b of ps, translated on their own
TagsOf(ps, a, b) == Concat(SgrLoop(SubSeq(ps, a, b), 1, <<>>))

\* "on " for the background lead
Ground(lead) == IF lead = <<"4", "8">> THEN <<"o", "n", " ">> ELSE <<>>

IndexedTag(ps, i) ==
    <<"[">> \o Ground(ps[i]) \o <<"c", "o", "l", "o", "r", "(">>
            \o Decimal(ps[i + 2]) \o <<")", "]">>

RgbTagOf(ps, i) ==
    <<"[">> \o Ground(ps[i]) \o <<"r", "g", "b", "(">>
            \o Decimal(ps[i + 2]) \o <<",">> \o Decimal(ps[i + 3]) \o <<",">>
            \o Decimal(ps[i + 4]) \o <<")", "]">>

\* C11: a lead 38 or 48 followed by 5 and an integer N yields exactly the
\* tag [color(N)] or [on color(N)] and takes 3 slots; followed by 2 and
\* three integers it yields exactly [rgb(R,G,B)] or [on rgb(R,G,B)] and
\* takes 5 slots; the slots taken yield nothing else, and the translation
\* goes on at the slot right after the directive.
C11_CompoundDirectiveTakesItsSlots ==
    converted =>
        LET ps == Slots(line)
            n == Len(ps)
        IN \A i \in ItemsFrom(ps, 1) :
              /\ IndexedDirective(ps, i) =>
                    markup = TagsOf(ps, 1, i - 1) \o IndexedTag(ps, i)
                                 \o TagsOf(ps, i + 3, n)
              /\ RgbDirective(ps, i) =>
                    markup = TagsOf(ps, 1, i - 1) \o RgbTagOf(ps, i)
                                 \o TagsOf(ps, i + 5, n)

\* ESC[0;48;5;07;5m: a reset, a background indexed-colour directive, blink
C11_Witness ==
    /\ converted
    /\ Slots(line) = <<<<"0">>, <<"4", "8">>, <<"5">>, <<"0", "7">>, <<"5">>>>
    /\ markup = <<"[", "/", "]", "[", "o", "n", " ", "c", "o", "l", "o", "r", "(",
                  "7", ")", "]", "[", "b", "l", "i", "n", "k", "]">>

\* C12: where a compound directive has too few slots after it or a slot
\* that is no integer, the lead value yields no tag, exactly one slot is
\* taken, and every slot after the lead value is translated.
C12_BrokenDirectiveFallsBack ==
    converted =>
        LET ps == Slots(line)
            n == Len(ps)
        IN \A i \in ItemsFrom(ps, 1) :
              BrokenDirective(ps, i) =>
                  /\ markup = TagsOf(ps, 1, i - 1) \o TagsOf(ps, i + 1, n)
                  /\ TagsOf(ps, i, i) = <<>>
                  /\ (i + 1) \in ItemsFrom(ps, 1)

\* ESC[38;2;0;;5m: a true-colour directive with an empty slot
C12_Witness ==
    /\ converted
    /\ Slots(line) = <<<<"3", "8">>, <<"2">>, <<"0">>, <<>>, <<"5">>>>
    /\ markup = <<"[", "d", "i", "m", "]", "[", "/", "]",
                  "[", "b", "l", "i", "n", "k", "]">>

\* C13: an empty parameter string or the single value 0 yields exactly
\* [/]; a list without compound directive yields, in the order of the
\* codes, one tag for each code of the table and nothing for the others.
C13_SingleCodesYieldTableTags ==
    converted =>
        LET ps == Slots(line)
            n == Len(ps)
        IN /\ Slice(line, 3, Len(line)) \in {<<>>, <<"0">>}
                 => markup = <<"[", "/", "]">>
           /\ (/\ Slice(line, 3, Len(line)) # <<>>
               /\ \A i \in 1..n : ~IndexedDirective(ps, i) /\ ~RgbDirective(ps, i))
                 => markup = Concat([k \in 1..n |->
                                IF ps[k] \in DOMAIN ANSI_TO_RICH
                                THEN <<"[">> \o ANSI_TO_RICH[ps[k]] \o <<"]">>
                                ELSE <<>>])
           /\ \A k \in 1..n :
                 ps[k] = <<"0">> => TagsOf(ps, k, k) = <<"[", "/", "]">>

\* ESC[5;07;0;2m: blink, a number that is no code, reset, dim
C13_Witness ==
    /\ converted
    /\ Slots(line) = <<<<"5">>, <<"0", "7">>, <<"0">>, <<"2">>>>
    /\ markup = <<"[", "b", "l", "i", "n", "k", "]", "[", "/", "]",
                  "[", "d", "i", "m", "]">>

-----------------------------------------------------------------------------
(* C14: the string sequences (OSC and DCS/SOS/PM/APC), under SpecLine *)

\* the position right after the longest run, from the position after the
\* introducer of the sequence at a, of characters that are not in stops
RunEnd(s, a, stops) ==
    CHOOSE r \in (a + 2)..(Len(s) + 1) :
        /\ \A h \in (a + 2)..(r - 1) : s[h] \notin stops
        /\ r <= Len(s) => s[r] \in stops

\* the length of the terminator at position r: 1 for a BEL where a BEL
\* terminates, 2 for ESC \, 0 when there is none
Closer(s, r, withBel) ==
    IF withBel /\ r <= Len(s) /\ s[r] = BEL THEN 1
    ELSE IF r + 1 <= Len(s) /\ s[r] = ESC /\ s[r + 1] = BSL THEN 2
    ELSE 0

\* the characters that end the run of the sequence introduced by c
Stops(c) == IF c = "]" THEN {BEL, ESC} ELSE {ESC}

\* no terminator of the sequence starting at a occurs in the rest of s
NoTerminator(s, a) ==
    \A r \in (a + 2)..Len(s) : Closer(s, r, s[a + 1] = "]") = 0

\* C14 as stated: a string sequence whose terminator does not occur before
\* the end of the line extends to the end of the line, and nothing of the
\* rest of the line is in the output.
C14_UnterminatedTakesRestOfLine ==
    converted =>
        \A k \in 1..Len(Matches(line)) :
            LET a == Matches(line)[k][1]
                e == Matches(line)[k][2]
            IN (line[a + 1] \in {"]"} \cup StringIntroducers /\ NoTerminator(line, a))
                   => e = Len(line) + 1 /\ markup = ansi_to_rich(Before(line, a))

\* C14 (amended): an OSC sequence is ESC ] and the longest run of
\* characters that are neither BEL nor ESC, plus the BEL or ESC \ right
\* after the run when there is one; a DCS/SOS/PM/APC sequence is ESC, one
\* of P X ^ _ and the longest run of characters other than ESC, plus the
\* ESC \ right after the run when there is one.  When the run reaches the
\* end of the line, so does the sequence, and the output is the conversion
\* of the text before the sequence.
C14_StringSequenceIsRunAndCloser ==
    converted =>
        \A k \in 1..Len(Matches(line)) :
            LET a == Matches(line)[k][1]
                e == Matches(line)[k][2]
                c == line[a + 1]
                r == RunEnd(line, a, Stops(c))
            IN c \in {"]"} \cup StringIntroducers =>
                  /\ e = r + Closer(line, r, c = "]")
                  /\ r = Len(line) + 1 =>
                        /\ e = Len(line) + 1
                        /\ markup = ansi_to_rich(Before(line, a))

\* a ESC ] 1 m: an OSC sequence without terminator takes the rest
C14_Witness ==
    /\ converted
    /\ line = <<"a", ESC, "]", "1", "m">>
    /\ Matches(line) = <<<<2, 6>>>>
    /\ markup = <<"a">>

-----------------------------------------------------------------------------
(* Two OutputProcessor instances driven in any interleaving *)

\* the most calls made on one instance
MaxCalls == 2

\* chunks that leave text in the buffer, complete a line, discard and edit
TwoChunks == {<<"a">>, <<"[", LF>>, <<"a", CR>>, <<BS>>}

\* inst.process(s)
CallProcess(inst, s) ==
    \E r \in {process(cells[Cell(inst)], s)} :
    /\ Len(calls[inst]) < MaxCalls
    /\ cells' = [cells EXCEPT ![Cell(inst)] = r.current_line]
    /\ calls' = [calls EXCEPT ![inst] = Append(@, [op |-> "process", text |-> s])]
    /\ outputs' = [outputs EXCEPT ![inst] = Append(@, r.ret)]
    /\ UNCHANGED <<current_line, op, text, pre, result_lines, ret>>
    /\ UNCHANGED <<line, markup, converted, streamVars>>

\* inst.flush()
CallFlush(inst) ==
    \E r \in {flush(cells[Cell(inst)])} :
    /\ Len(calls[inst]) < MaxCalls
    /\ cells' = [cells EXCEPT ![Cell(inst)] = r.current_line]
    /\ calls' = [calls EXCEPT ![inst] = Append(@, [op |-> "flush", text |-> <<>>])]
    /\ outputs' = [outputs EXCEPT ![inst] = Append(@, r.ret)]
    /\ UNCHANGED <<current_line, op, text, pre, result_lines, ret>>
    /\ UNCHANGED <<line, markup, converted, streamVars>>

\* inst.reset()
CallReset(inst) ==
    /\ Len(calls[inst]) < MaxCalls
    /\ cells' = [cells EXCEPT ![Cell(inst)] = reset(cells[Cell(inst)]).current_line]
    /\ calls' = [calls EXCEPT ![inst] = Append(@, [op |-> "reset", text |-> <<>>])]
    /\ outputs' = [outputs EXCEPT ![inst] = Append(@, <<>>)]
    /\ UNCHANGED <<current_line, op, text, pre, result_lines, ret>>
    /\ UNCHANGED <<line, markup, converted, streamVars>>

NextTwo ==
    \E inst \in Instances :
        \/ \E s \in TwoChunks : CallProcess(inst, s)
        \/ CallFlush(inst)
        \/ CallReset(inst)

SpecTwo == Init /\ [][NextTwo]_vars

-----------------------------------------------------------------------------
(* C15: instances share no state, under SpecTwo *)

RECURSIVE Alone(_, _, _, _)
\* one instance driven alone with the calls cs from call k on: its buffer
\* and the list of its return values
Alone(cs, k, cur, outs) ==
    IF k > Len(cs) THEN [current_line |-> cur, outputs |-> outs]
    ELSE IF cs[k].op = "process"
         THEN Alone(cs, k + 1, process(cur, cs[k].text).current_line,
                    Append(outs, process(cur, cs[k].text).ret))
    ELSE IF cs[k].op = "flush"
         THEN Alone(cs, k + 1, flush(cur).current_line, Append(outs, flush(cur).ret))
    ELSE Alone(cs, k + 1, <<>>, Append(outs, <<>>))

\* C15: under every interleaving of calls to two instances, the return
\* values and the buffer of each instance are those of that instance
\* driven alone with its own calls; a call on one instance leaves the
\* buffer of the other as it was.
C15_InstancesShareNoState ==
    \A inst \in Instances :
        LET alone == Alone(calls[inst], 1, <<>>, <<>>)
        IN /\ outputs[inst] = alone.outputs
           /\ cells[Cell(inst)] = alone.current_line

\* instance 1 completed a line and holds "a"; instance 2 was fed "a" in
\* between and flushed it
C15_Witness ==
    /\ calls[1] = <<[op |-> "process", text |-> <<"[", LF>>],
                    [op |-> "process", text |-> <<"a">>]>>
    /\ calls[2] = <<[op |-> "process", text |-> <<"a">>],
                    [op |-> "flush", text |-> <<>>]>>
    /\ outputs[1] = <<<<BSL, "[", LF>>, <<>>>>
    /\ outputs[2] = <<<<>>, <<"a", LF>>>>
    /\ cells[Cell(1)] = <<"a">>
    /\ cells[Cell(2)] = <<>>

-----------------------------------------------------------------------------
(* One instance fed the pieces of SGR sequences and line feeds *)

SplitAlphabet == {ESC, "[", "m", LF}

SplitChunks == SeqsUpTo(SplitAlphabet, MaxChunk)

NextSplit ==
    \/ \E s \in SplitChunks : Process(s)
    \/ Flush
    \/ Reset

SpecSplit == Init /\ [][NextSplit]_vars

-----------------------------------------------------------------------------
(* C16: an escape sequence split over two chunks, under SpecSplit *)

\* s up to its first line feed, or all of s when it has none
FirstLine(s) ==
    IF \A k \in 1..Len(s) : s[k] # LF THEN s
    ELSE Slice(s, 1, CHOOSE k \in 1..Len(s) :
                        s[k] = LF /\ \A h \in 1..(k - 1) : s[h] # LF)

\* s after its last line feed, or all of s when it has none
LastLine(s) ==
    IF \A k \in 1..Len(s) : s[k] # LF THEN s
    ELSE After(s, 1 + CHOOSE k \in 1..Len(s) :
                        s[k] = LF /\ \A h \in (k + 1)..Len(s) : s[h] # LF)

\* a sequence of the line x \o y begins in x and has its last character in y
SpansJoin(x, y) ==
    \E k \in 1..Len(Matches(x \o y)) :
        /\ Matches(x \o y)[k][1] <= Len(x)
        /\ Matches(x \o y)[k][2] - 1 > Len(x)

\* the stream c1 \o c2 delivered as the chunks c1 and c2 has a sequence
\* split by the chunk boundary, and what the two calls return differs from
\* what one call on the whole stream returns
MisScanned(c1, c2) ==
    /\ SpansJoin(LastLine(c1), FirstLine(c2))
    /\ process(<<>>, c1).ret \o process(process(<<>>, c1).current_line, c2).ret
          # process(<<>>, c1 \o c2).ret

\* C16 as stated: there is a stream and a chunking of it, with a sequence
\* split over two chunks and no line terminator between its parts, whose
\* markup differs from the markup of the stream delivered as one chunk.
C16_SplitSequenceMisScanned ==
    op = "init" => \E c1 \in EscChunks : \E c2 \in EscChunks : MisScanned(c1, c2)

\* C16 (amended): when the buffer holds the beginning of a sequence and
\* the chunk brings its last character before any line terminator, the
\* line is scanned whole: the completed line is the buffer followed by the
\* chunk up to the line feed and its markup is that of this line, and the
\* call returns and leaves what one call on the buffer followed by the
\* chunk returns and leaves.
C16_SplitSequenceScannedWhole ==
    (op = "process" /\ SpansJoin(pre, FirstLine(text))) =>
        LET joined == pre \o FirstLine(text)
        IN /\ IF FirstLine(text) = text
              THEN current_line = joined /\ ret = <<>>
              ELSE /\ result_lines[1] = joined
                   /\ Slice(ret, 1, Len(ansi_to_rich(joined)) + 2)
                         = ansi_to_rich(joined) \o <<LF>>
           /\ ret = process(<<>>, pre \o text).ret
           /\ current_line = process(<<>>, pre \o text).current_line

\* ESC [ is in the buffer, the chunk is m LF: the line is ESC[m
C16_Witness ==
    /\ op = "process"
    /\ pre = <<ESC, "[">>
    /\ text = <<"m", LF>>
    /\ SpansJoin(pre, FirstLine(text))
    /\ ret = <<"[", "/", "]", LF>>

-----------------------------------------------------------------------------
(* One instance fed a stream cut into chunks, then flushed at its end *)

\* the longest stream
MaxStream == 4

\* plain text, a markup bracket, and the three characters process interprets
StreamAlphabet == {"a", "b", "[", CR, LF, BS}

StreamChunks == SeqsUpTo(StreamAlphabet, MaxChunk) \ {<<>>}

\* the read loop passes the next chunk of the stream to process
Feed(s) ==
    /\ op # "flush"
    /\ Len(stream) + Len(s) <= MaxStream
    /\ \E r \in {process(current_line, s)} :
       /\ op' = "process"
       /\ text' = s
       /\ pre' = current_line
       /\ current_line' = r.current_line
       /\ result_lines' = r.result_lines
       /\ ret' = r.ret
       /\ stream' = stream \o s
       /\ cuts' = IF stream = <<>> THEN cuts ELSE cuts \cup {Len(stream)}
       /\ emitted' = emitted \o r.ret
       /\ UNCHANGED <<line, markup, converted, twoVars>>

\* the read loop calls flush once, at the end of the stream
EndOfStream ==
    /\ op # "flush"
    /\ \E r \in {flush(current_line)} :
       /\ op' = "flush"
       /\ text' = <<>>
       /\ pre' = current_line
       /\ current_line' = r.current_line
       /\ result_lines' = <<>>
       /\ ret' = r.ret
       /\ emitted' = emitted \o r.ret
       /\ UNCHANGED <<stream, cuts>>
       /\ UNCHANGED <<line, markup, converted, twoVars>>

NextStream ==
    \/ \E s \in StreamChunks : Feed(s)
    \/ EndOfStream

SpecStream == Init /\ [][NextStream]_vars

-----------------------------------------------------------------------------
(* C17, C19: the stream and its chunkings, under SpecStream *)

\* C17 as stated: however the stream is cut into chunks, what the process
\* calls returned so far, concatenated, and the buffer are what one
\* process call on the whole stream returns and leaves.
C17_ChunkingInvariance ==
    op \in {"init", "process"} =>
        /\ emitted = process(<<>>, stream).ret
        /\ current_line = process(<<>>, stream).current_line

\* made only of line feeds and of characters other than CR, BS, ESC and
\* the brackets
Plain(s) == \A k \in 1..Len(s) : s[k] \notin {CR, BS, ESC, "[", "]"}

\* C19: for a plain stream, cut into chunks in any way, the return values
\* of the process calls followed by that of the final flush are the
\* stream, with a line feed added when the stream is not empty and does
\* not end in one: each character is emitted once, in stream order.
C19_PlainStreamEmittedOnce ==
    (op = "flush" /\ Plain(stream)) =>
        emitted = IF stream = <<>> \/ stream[Len(stream)] = LF
                  THEN stream
                  ELSE stream \o <<LF>>

\* a b LF a cut as a | b LF | a: the first line comes in two chunks and
\* the last line is emitted by flush
C19_Witness ==
    /\ op = "flush"
    /\ stream = <<"a", "b", LF, "a">>
    /\ cuts = {1, 3}
    /\ ret = <<"a", LF>>
    /\ emitted = <<"a", "b", LF, "a", LF>>

-----------------------------------------------------------------------------
(* C18: what the buffer holds, under Spec *)

\* s holds no carriage return, no line feed and no backspace
NoControl(s) == \A k \in 1..Len(s) : s[k] \notin {CR, LF, BS}

\* C18: the buffer never holds a carriage return, a line feed or a
\* backspace; so no line handed to ansi_to_rich holds one, and each
\* completed line is exactly one line of the return value, ended by a
\* line feed.
C18_BufferHoldsNoTerminator ==
    /\ NoControl(current_line)
    /\ NoControl(pre)
    /\ \A k \in 1..Len(result_lines) :
          /\ NoControl(result_lines[k])
          /\ NoControl(ansi_to_rich(result_lines[k]))
    /\ op = "process" =>
          /\ Count(ret, LF) = Len(result_lines)
          /\ ret = Concat([k \in 1..Len(result_lines) |->
                              ansi_to_rich(result_lines[k]) \o <<LF>>])
    /\ op = "flush" =>
          ret = IF pre = <<>> THEN <<>> ELSE ansi_to_rich(pre) \o <<LF>>

\* a [ is in the buffer; the chunk BS CR LF removes the bracket and
\* completes the line "a" with the pair
C18_Witness ==
    /\ op = "process"
    /\ pre = <<"a", "[">>
    /\ text = <<BS, CR, LF>>
    /\ current_line = <<>>
    /\ result_lines = <<<<"a">>>>
    /\ ret = <<"a", LF>>

=============================================================================
